---- MODULE Spec2Model ----
(***************************************************************************)
(* Model of the AdminDashboard component                                   *)
(* (src/frontend/login_Api/src/AdminDashboard.jsx).                        *)
(*                                                                         *)
(* The component's React state, its two props, the requests that are in    *)
(* flight (each with the roster its handler closed over when it was        *)
(* invoked) and the blocking confirmation dialog are the variables.  One   *)
(* action per handler step: the synchronous part of a handler up to its    *)
(* first await is one action, and the continuation that runs when the      *)
(* request settles is another.                                             *)
(***************************************************************************)
EXTENDS Bags, FiniteSets, Integers, Sequences, TLC

VARIABLES
    users,             \* useState([])     the roster
    loading,           \* useState(false)
    error,             \* useState('')
    message,           \* useState('')
    viewingUserId,     \* useState(null)
    viewingUserEmail,  \* useState(null)
    authToken,         \* prop
    currentUserRole,   \* prop
    mounted,           \* FALSE until the first effect has run
    storedEmail,       \* localStorage.getItem('userEmail'): the acting user is user 1
    inflight,          \* bag of requests awaiting their response
    confirm,           \* target of the open window.confirm dialog, or NoConfirm
    deleted,           \* history: identifiers a successful delete took out of the
                       \* roster and no successful fetch has returned since
    fetched,           \* history: the response body the last step read with
                       \* response.json() in fetchUsers, NoData for other steps
    last               \* name of the handler step that ran last

vars == <<users, loading, error, message, viewingUserId, viewingUserEmail,
          authToken, currentUserRole, mounted, storedEmail, inflight,
          confirm, deleted, fetched, last>>

view == <<users, loading, error, message, viewingUserId, viewingUserEmail>>

----------------------------------------------------------------------------
(* Bounds *)

MaxUsers == 2

MaxInFlight == 2

----------------------------------------------------------------------------
(* Values *)

availableRoles == <<"user", "moderator", "admin", "superAdmin", "manager">>

ROLE_LEVELS ==
    [user |-> 0, moderator |-> 1, admin |-> 2, superAdmin |-> 3, manager |-> 4]

Roles == {availableRoles[i] : i \in 1..Len(availableRoles)}

AdminRoles == {"admin", "superAdmin", "manager"}

NoToken == "none"

Tokens == {NoToken, "token"}

NoRole == ""

\* the acting roles the host hands in: absent, one outside the admin set, and
\* one inside it
ActingRoles == {NoRole, "user", "admin"}

NoUser == 0

UserIds == 1..MaxUsers

NoEmail == "null"

Email(id) == IF id = 1 THEN "a@x" ELSE IF id = 2 THEN "b@x" ELSE "c@x"

\* roles the backend's user list carries
ServerRoles == {"user", "superAdmin"}

User(id, role) == [_id |-> id, email |-> Email(id), role |-> role]

\* sequences of identifiers, of every length up to n
RECURSIVE IdSeqs(_)
IdSeqs(n) ==
    IF n = 0 THEN {<<>>}
    ELSE LET shorter == IdSeqs(n - 1)
         IN  shorter \cup
             {Append(s, id) : s \in {t \in shorter : Len(t) = n - 1},
                              id \in UserIds}

\* the backend lists each user once, in any order
Distinct(s) == \A i, j \in 1..Len(s) : i # j => s[i] # s[j]

\* the user lists a response to GET /api/auth/users may carry
ServerLists ==
    UNION {{[i \in 1..Len(ids) |-> User(ids[i], rs[i])] :
                rs \in [1..Len(ids) -> ServerRoles]} :
           ids \in {s \in IdSeqs(MaxUsers) : Distinct(s)}}

\* data.message of a response: absent, or a text of the server
ServerMessages == {"", "server message"}

\* JavaScript a || b on strings
Or(a, b) == IF a = "" THEN b ELSE a

\* the body of a successful response to GET /api/auth/users: { users: [...] },
\* or a body without a users field
FetchBodies ==
    {[present |-> TRUE, users |-> l] : l \in ServerLists}
        \cup {[present |-> FALSE, users |-> <<>>]}

NoData == [present |-> FALSE, users |-> <<>>]

\* data.users || [] with the previous roster kept when the field is missing
OrEmpty_KeepsRoster(data) == IF data.present THEN data.users ELSE users

\* data.users || []
OrEmpty(data) == IF data.present THEN data.users ELSE <<>>

NoConfirm == [userId |-> NoUser, email |-> NoEmail]

FetchReq ==
    [kind |-> "fetchUsers", userId |-> NoUser, email |-> NoEmail,
     newRole |-> NoRole, users |-> <<>>]

\* users.map(user => user._id === userId ? { ...user, role: newRole } : user)
MapRole(us, userId, newRole) ==
    [i \in 1..Len(us) |->
        IF us[i]._id = userId THEN [us[i] EXCEPT !.role = newRole] ELSE us[i]]

\* users.filter(user => user._id !== userId)
FilterOut(us, userId) == SelectSeq(us, LAMBDA u : u._id # userId)

\* the identifiers of a roster
Ids(us) == {us[i]._id : i \in 1..Len(us)}

InFlightCount == BagCardinality(inflight)

Requests(kind) == {r \in BagToSet(inflight) : r.kind = kind}

----------------------------------------------------------------------------
(* Rendering: which of the four returns of the component is taken, and the  *)
(* disabled attributes of the controls of a roster row.                     *)

RenderMode ==
    IF authToken = NoToken THEN "login"
    ELSE IF currentUserRole \notin AdminRoles THEN "denied"
    ELSE IF viewingUserId # NoUser THEN "todos"
    ELSE "dashboard"

\* ROLE_LEVELS[a] < ROLE_LEVELS[b]; a comparison with undefined is false
LevelLess(a, b) ==
    /\ a \in DOMAIN ROLE_LEVELS
    /\ b \in DOMAIN ROLE_LEVELS
    /\ ROLE_LEVELS[a] < ROLE_LEVELS[b]

\* ROLE_LEVELS[a] <= ROLE_LEVELS[b]
LevelLessEq(a, b) ==
    /\ a \in DOMAIN ROLE_LEVELS
    /\ b \in DOMAIN ROLE_LEVELS
    /\ ROLE_LEVELS[a] <= ROLE_LEVELS[b]

\* the comparison made against a localStorage key that holds nothing
isCurrentUser_NoStoredEmail(user) == user.email = NoEmail

isCurrentUser(user) == user.email = storedEmail

\* the select disabled for an equal level too
isDropdownDisabled_LessEq(user) ==
    \/ loading
    \/ isCurrentUser(user)
    \/ LevelLessEq(currentUserRole, user.role)

isDropdownDisabled(user) ==
    \/ loading
    \/ isCurrentUser(user)
    \/ LevelLess(currentUserRole, user.role)

\* an option of the acting user's own level disabled too
optionDisabled_GreaterEq(role, user) ==
    \/ LevelLessEq(currentUserRole, role)
    \/ (user.role = "superAdmin" /\ currentUserRole # "superAdmin")

\* the options without the superAdmin-target clause
optionDisabled_NoTopTier(role, user) ==
    LevelLess(currentUserRole, role)

optionDisabled(role, user) ==
    \/ LevelLess(currentUserRole, role)
    \/ (user.role = "superAdmin" /\ currentUserRole # "superAdmin")

\* the Delete button without the superAdmin-target clause
deleteDisabled_NoTopTier(user) ==
    \/ loading
    \/ isCurrentUser(user)
    \/ (LevelLessEq(currentUserRole, user.role) /\ currentUserRole # "superAdmin")

deleteDisabled(user) ==
    \/ loading
    \/ isCurrentUser(user)
    \/ (LevelLessEq(currentUserRole, user.role) /\ currentUserRole # "superAdmin")
    \/ (user.role = "superAdmin" /\ currentUserRole # "superAdmin")

Rows == IF RenderMode = "dashboard" THEN 1..Len(users) ELSE {}

----------------------------------------------------------------------------
(* Handlers *)

\* setLoading(true); setError(''); setMessage(''); then the request is sent
StartRequest(req) ==
    /\ InFlightCount < MaxInFlight
    /\ loading' = TRUE
    /\ error' = ""
    /\ message' = ""
    /\ inflight' = inflight (+) SetToBag({req})

fetchUsers == StartRequest(FetchReq)

\* the effect with its admission test on the role alone
Effect_IgnoresToken(tok, role) ==
    IF role \in AdminRoles
    THEN fetchUsers
    ELSE IF tok # NoToken /\ role # NoRole /\ role \notin AdminRoles
    THEN /\ error' = "You do not have sufficient administrative privileges to view this dashboard."
         /\ UNCHANGED <<loading, message, inflight>>
    ELSE UNCHANGED <<loading, error, message, inflight>>

\* the effect without its else-if branch
Effect_NoDeniedError(tok, role) ==
    IF tok # NoToken /\ role \in AdminRoles
    THEN fetchUsers
    ELSE UNCHANGED <<loading, error, message, inflight>>

\* the body of the useEffect, run with the props of the render it follows
Effect(tok, role) ==
    IF tok # NoToken /\ role \in AdminRoles
    THEN fetchUsers
    ELSE IF tok # NoToken /\ role # NoRole /\ role \notin AdminRoles
    THEN /\ error' = "You do not have sufficient administrative privileges to view this dashboard."
         /\ UNCHANGED <<loading, message, inflight>>
    ELSE UNCHANGED <<loading, error, message, inflight>>

\* first render and its effect
Mount ==
    /\ ~mounted
    /\ mounted' = TRUE
    /\ Effect(authToken, currentUserRole)
    /\ last' = "Mount"
    /\ fetched' = NoData
    /\ UNCHANGED deleted
    /\ UNCHANGED <<users, viewingUserId, viewingUserEmail, authToken,
                   currentUserRole, storedEmail, confirm>>

\* the host re-renders with another token or role; the effect runs again
PropsChange(tok, role) ==
    /\ mounted
    /\ confirm = NoConfirm
    /\ <<tok, role>> # <<authToken, currentUserRole>>
    /\ authToken' = tok
    /\ currentUserRole' = role
    /\ Effect(tok, role)
    /\ last' = "PropsChange"
    /\ fetched' = NoData
    /\ UNCHANGED deleted
    /\ UNCHANGED <<users, viewingUserId, viewingUserEmail, mounted,
                   storedEmail, confirm>>

\* onChange of the role select of row i
handleChangeRole(i, newRole) ==
    /\ mounted
    /\ confirm = NoConfirm
    /\ i \in Rows
    /\ ~isDropdownDisabled(users[i])
    /\ ~optionDisabled(newRole, users[i])
    /\ newRole # users[i].role
    /\ StartRequest([kind |-> "changeRole", userId |-> users[i]._id,
                     email |-> users[i].email, newRole |-> newRole,
                     users |-> users])
    /\ last' = "handleChangeRole"
    /\ fetched' = NoData
    /\ UNCHANGED deleted
    /\ UNCHANGED <<users, viewingUserId, viewingUserEmail, authToken,
                   currentUserRole, mounted, storedEmail, confirm>>

\* onClick of the Delete button of row i: window.confirm opens and blocks
handleDeleteUser(i) ==
    /\ mounted
    /\ confirm = NoConfirm
    /\ i \in Rows
    /\ ~deleteDisabled(users[i])
    /\ InFlightCount < MaxInFlight
    /\ confirm' = [userId |-> users[i]._id, email |-> users[i].email]
    /\ last' = "handleDeleteUser"
    /\ fetched' = NoData
    /\ UNCHANGED deleted
    /\ UNCHANGED <<view, authToken, currentUserRole, mounted, storedEmail,
                   inflight>>

\* the handler with setLoading(true) ahead of the confirmation
ConfirmDeclined_SetsLoading ==
    /\ confirm # NoConfirm
    /\ confirm' = NoConfirm
    /\ loading' = TRUE
    /\ last' = "ConfirmDeclined"
    /\ fetched' = NoData
    /\ UNCHANGED deleted
    /\ UNCHANGED <<users, error, message, viewingUserId, viewingUserEmail,
                   authToken, currentUserRole, mounted, storedEmail, inflight>>

\* window.confirm returned false: return
ConfirmDeclined ==
    /\ confirm # NoConfirm
    /\ confirm' = NoConfirm
    /\ last' = "ConfirmDeclined"
    /\ fetched' = NoData
    /\ UNCHANGED deleted
    /\ UNCHANGED <<view, authToken, currentUserRole, mounted, storedEmail,
                   inflight>>

\* window.confirm returned true: the DELETE is sent
ConfirmAccepted ==
    /\ confirm # NoConfirm
    /\ confirm' = NoConfirm
    /\ StartRequest([kind |-> "deleteUser", userId |-> confirm.userId,
                     email |-> confirm.email, newRole |-> NoRole,
                     users |-> users])
    /\ last' = "ConfirmAccepted"
    /\ fetched' = NoData
    /\ UNCHANGED deleted
    /\ UNCHANGED <<users, viewingUserId, viewingUserEmail, authToken,
                   currentUserRole, mounted, storedEmail>>

\* onClick of the View Todos button of row i
handleViewUserTodos(i) ==
    /\ mounted
    /\ confirm = NoConfirm
    /\ i \in Rows
    /\ viewingUserId' = users[i]._id
    /\ viewingUserEmail' = users[i].email
    /\ last' = "handleViewUserTodos"
    /\ fetched' = NoData
    /\ UNCHANGED deleted
    /\ UNCHANGED <<users, loading, error, message, authToken,
                   currentUserRole, mounted, storedEmail, inflight, confirm>>

\* the handler without its call of fetchUsers
handleBackToUsers_NoRefetch ==
    /\ mounted
    /\ confirm = NoConfirm
    /\ RenderMode = "todos"
    /\ viewingUserId' = NoUser
    /\ viewingUserEmail' = NoEmail
    /\ last' = "handleBackToUsers"
    /\ fetched' = NoData
    /\ UNCHANGED <<users, loading, error, message, inflight, authToken,
                   currentUserRole, mounted, storedEmail, confirm, deleted>>

\* onClick of the Back to Users button of the todo sub-view
handleBackToUsers ==
    /\ mounted
    /\ confirm = NoConfirm
    /\ RenderMode = "todos"
    /\ viewingUserId' = NoUser
    /\ viewingUserEmail' = NoEmail
    /\ fetchUsers
    /\ last' = "handleBackToUsers"
    /\ fetched' = NoData
    /\ UNCHANGED deleted
    /\ UNCHANGED <<users, authToken, currentUserRole, mounted, storedEmail,
                   confirm>>

----------------------------------------------------------------------------
(* Continuations: what each handler does when its request settles.  A       *)
(* continuation reads the roster of the render in which its handler was     *)
(* invoked (req.users), and every one ends in finally { setLoading(false) }.*)

\* a continuation without the finally block
Settle_NoFinally(req) ==
    /\ mounted
    /\ confirm = NoConfirm
    /\ BagIn(req, inflight)
    /\ inflight' = inflight (-) SetToBag({req})
    /\ UNCHANGED <<loading, viewingUserId, viewingUserEmail, authToken,
                   currentUserRole, mounted, storedEmail, confirm>>

Settle(req) ==
    /\ mounted
    /\ confirm = NoConfirm
    /\ BagIn(req, inflight)
    /\ inflight' = inflight (-) SetToBag({req})
    /\ loading' = FALSE
    /\ UNCHANGED <<viewingUserId, viewingUserEmail, authToken,
                   currentUserRole, mounted, storedEmail, confirm>>

\* fetchUsers, response.ok
FetchOk(req, data) ==
    /\ req.kind = "fetchUsers"
    /\ Settle(req)
    /\ users' = OrEmpty(data)
    /\ last' = "FetchOk"
    /\ fetched' = data
    /\ deleted' = deleted \ Ids(users')
    /\ UNCHANGED <<error, message>>

\* fetchUsers, HTTP error
FetchRejected(req, msg) ==
    /\ req.kind = "fetchUsers"
    /\ Settle(req)
    /\ error' = Or(msg, "Failed to fetch users. Ensure you have permission.")
    /\ last' = "FetchRejected"
    /\ fetched' = NoData
    /\ UNCHANGED deleted
    /\ UNCHANGED <<users, message>>

\* the catch block of fetchUsers emptying the roster
FetchThrew_ClearsRoster(req) ==
    /\ req.kind = "fetchUsers"
    /\ Settle(req)
    /\ users' = <<>>
    /\ error' = "Network error or server is unreachable while fetching users. Ensure your backend is running."
    /\ last' = "FetchThrew"
    /\ fetched' = NoData
    /\ UNCHANGED deleted
    /\ UNCHANGED message

\* fetchUsers, fetch or response.json() threw
FetchThrew(req) ==
    /\ req.kind = "fetchUsers"
    /\ Settle(req)
    /\ error' = "Network error or server is unreachable while fetching users. Ensure your backend is running."
    /\ last' = "FetchThrew"
    /\ fetched' = NoData
    /\ UNCHANGED deleted
    /\ UNCHANGED <<users, message>>

\* handleChangeRole, response.ok
ChangeRoleOk(req, msg) ==
    /\ req.kind = "changeRole"
    /\ Settle(req)
    /\ message' = Or(msg, "Role updated.")
    /\ users' = MapRole(req.users, req.userId, req.newRole)
    /\ last' = "ChangeRoleOk"
    /\ fetched' = NoData
    /\ UNCHANGED deleted
    /\ UNCHANGED error

\* the role written to the roster whatever the response status
ChangeRoleRejected_Optimistic(req, msg) ==
    /\ req.kind = "changeRole"
    /\ Settle(req)
    /\ error' = Or(msg, "Failed to change role. Check your permissions.")
    /\ users' = MapRole(req.users, req.userId, req.newRole)
    /\ last' = "ChangeRoleRejected"
    /\ fetched' = NoData
    /\ UNCHANGED deleted
    /\ UNCHANGED message

\* handleChangeRole, HTTP error
ChangeRoleRejected(req, msg) ==
    /\ req.kind = "changeRole"
    /\ Settle(req)
    /\ error' = Or(msg, "Failed to change role. Check your permissions.")
    /\ last' = "ChangeRoleRejected"
    /\ fetched' = NoData
    /\ UNCHANGED deleted
    /\ UNCHANGED <<users, message>>

\* handleChangeRole, fetch or response.json() threw
ChangeRoleThrew(req) ==
    /\ req.kind = "changeRole"
    /\ Settle(req)
    /\ error' = "Network error or server is unreachable while changing role."
    /\ last' = "ChangeRoleThrew"
    /\ fetched' = NoData
    /\ UNCHANGED deleted
    /\ UNCHANGED <<users, message>>

\* handleDeleteUser, response.ok
DeleteOk(req, msg) ==
    /\ req.kind = "deleteUser"
    /\ Settle(req)
    /\ message' = Or(msg, "User deleted successfully.")
    /\ users' = FilterOut(req.users, req.userId)
    /\ last' = "DeleteOk"
    /\ fetched' = NoData
    /\ deleted' = IF req.userId \in Ids(users)
                  THEN deleted \cup {req.userId}
                  ELSE deleted
    /\ UNCHANGED error

\* handleDeleteUser, HTTP error
DeleteRejected(req, msg) ==
    /\ req.kind = "deleteUser"
    /\ Settle(req)
    /\ error' = Or(msg, "Failed to delete user. Check your permissions.")
    /\ last' = "DeleteRejected"
    /\ fetched' = NoData
    /\ UNCHANGED deleted
    /\ UNCHANGED <<users, message>>

\* handleDeleteUser, fetch or response.json() threw
DeleteThrew(req) ==
    /\ req.kind = "deleteUser"
    /\ Settle(req)
    /\ error' = "Network error or server is unreachable while deleting user."
    /\ last' = "DeleteThrew"
    /\ fetched' = NoData
    /\ UNCHANGED deleted
    /\ UNCHANGED <<users, message>>

----------------------------------------------------------------------------
(* Specification *)

Init ==
    /\ users = <<>>
    /\ loading = FALSE
    /\ error = ""
    /\ message = ""
    /\ viewingUserId = NoUser
    /\ viewingUserEmail = NoEmail
    /\ authToken \in Tokens
    /\ currentUserRole \in ActingRoles
    /\ mounted = FALSE
    /\ storedEmail = Email(1)
    /\ inflight = EmptyBag
    /\ confirm = NoConfirm
    /\ deleted = {}
    /\ last = "Init"
    /\ fetched = NoData

Next ==
    \/ Mount
    \/ \E tok \in Tokens, role \in ActingRoles : PropsChange(tok, role)
    \/ \E i \in 1..MaxUsers, newRole \in Roles : handleChangeRole(i, newRole)
    \/ \E i \in 1..MaxUsers : handleDeleteUser(i)
    \/ ConfirmDeclined
    \/ ConfirmAccepted
    \/ \E i \in 1..MaxUsers : handleViewUserTodos(i)
    \/ handleBackToUsers
    \/ \E req \in BagToSet(inflight), data \in FetchBodies : FetchOk(req, data)
    \/ \E req \in BagToSet(inflight), msg \in ServerMessages : FetchRejected(req, msg)
    \/ \E req \in BagToSet(inflight) : FetchThrew(req)
    \/ \E req \in BagToSet(inflight), msg \in ServerMessages : ChangeRoleOk(req, msg)
    \/ \E req \in BagToSet(inflight), msg \in ServerMessages : ChangeRoleRejected(req, msg)
    \/ \E req \in BagToSet(inflight) : ChangeRoleThrew(req)
    \/ \E req \in BagToSet(inflight), msg \in ServerMessages : DeleteOk(req, msg)
    \/ \E req \in BagToSet(inflight), msg \in ServerMessages : DeleteRejected(req, msg)
    \/ \E req \in BagToSet(inflight) : DeleteThrew(req)

\* some request that is in flight settles, one way or another
Settles ==
    \E req \in BagToSet(inflight) :
        \/ \E data \in FetchBodies : FetchOk(req, data)
        \/ \E msg \in ServerMessages :
              \/ FetchRejected(req, msg)
              \/ ChangeRoleOk(req, msg)
              \/ ChangeRoleRejected(req, msg)
              \/ DeleteOk(req, msg)
              \/ DeleteRejected(req, msg)
        \/ FetchThrew(req)
        \/ ChangeRoleThrew(req)
        \/ DeleteThrew(req)

Spec == Init /\ [][Next]_vars

\* every request that was sent settles
FairSpec == Spec /\ WF_vars(Settles)

\* the component with its props held fixed: every step but a change of props
FixedPropsNext ==
    \/ Mount
    \/ \E i \in 1..MaxUsers, newRole \in Roles : handleChangeRole(i, newRole)
    \/ \E i \in 1..MaxUsers : handleDeleteUser(i)
    \/ ConfirmDeclined
    \/ ConfirmAccepted
    \/ \E i \in 1..MaxUsers : handleViewUserTodos(i)
    \/ handleBackToUsers
    \/ \E req \in BagToSet(inflight), data \in FetchBodies : FetchOk(req, data)
    \/ \E req \in BagToSet(inflight), msg \in ServerMessages : FetchRejected(req, msg)
    \/ \E req \in BagToSet(inflight) : FetchThrew(req)
    \/ \E req \in BagToSet(inflight), msg \in ServerMessages : ChangeRoleOk(req, msg)
    \/ \E req \in BagToSet(inflight), msg \in ServerMessages : ChangeRoleRejected(req, msg)
    \/ \E req \in BagToSet(inflight) : ChangeRoleThrew(req)
    \/ \E req \in BagToSet(inflight), msg \in ServerMessages : DeleteOk(req, msg)
    \/ \E req \in BagToSet(inflight), msg \in ServerMessages : DeleteRejected(req, msg)
    \/ \E req \in BagToSet(inflight) : DeleteThrew(req)

FixedPropsSpec == Init /\ [][FixedPropsNext]_vars

----------------------------------------------------------------------------
(* The rendering policy over the whole role enumeration.  The policy is a   *)
(* function of one render, so PolicySpec starts in any render of a roster   *)
(* whose rows carry any role, for any acting role, and takes the operator's *)
(* steps on the controls of that render.                                    *)

PolicyRosters ==
    UNION {{[i \in 1..Len(ids) |-> User(ids[i], rs[i])] :
                rs \in [1..Len(ids) -> Roles]} :
           ids \in {s \in IdSeqs(MaxUsers) : Distinct(s)}}

PolicyInit ==
    /\ users \in PolicyRosters
    /\ loading \in BOOLEAN
    /\ authToken = "token"
    /\ currentUserRole \in Roles
    /\ error = IF currentUserRole \in AdminRoles
               THEN ""
               ELSE "You do not have sufficient administrative privileges to view this dashboard."
    /\ message = ""
    /\ viewingUserId = NoUser
    /\ viewingUserEmail = NoEmail
    /\ mounted = TRUE
    /\ storedEmail \in {NoEmail} \cup {Email(id) : id \in UserIds}
    /\ inflight = IF loading THEN SetToBag({FetchReq}) ELSE EmptyBag
    /\ confirm = NoConfirm
    /\ deleted = {}
    /\ last = "Init"
    /\ fetched = NoData

PolicyNext ==
    \/ \E i \in 1..MaxUsers, newRole \in Roles : handleChangeRole(i, newRole)
    \/ \E i \in 1..MaxUsers : handleDeleteUser(i)
    \/ ConfirmDeclined
    \/ ConfirmAccepted
    \/ \E i \in 1..MaxUsers : handleViewUserTodos(i)
    \/ handleBackToUsers

PolicySpec == PolicyInit /\ [][PolicyNext]_vars

----------------------------------------------------------------------------
(* Properties *)

Started == InFlightCount' > InFlightCount

RejectedOrThrew ==
    {"ChangeRoleRejected", "ChangeRoleThrew", "DeleteRejected", "DeleteThrew"}

FetchFailed == {"FetchRejected", "FetchThrew"}

Settled ==
    {"FetchOk", "ChangeRoleOk", "DeleteOk"} \cup RejectedOrThrew \cup FetchFailed

\* C1: a successful changeRole completion changes the roster held just before
\* it only in the role of the entry whose identifier is userId.
C1_RoleChangeFrame ==
    [][\A req \in Requests("changeRole"), msg \in ServerMessages :
          ChangeRoleOk(req, msg) =>
              users' = MapRole(users, req.userId, req.newRole)]_vars

\* C2: a successful deleteUser completion removes from the roster held just
\* before it exactly the entry whose identifier is userId.
C2_DeleteFrame ==
    [][\A req \in Requests("deleteUser"), msg \in ServerMessages :
          DeleteOk(req, msg) => users' = FilterOut(users, req.userId)]_vars

\* C3: while a request is in flight, the role-change control and the delete
\* control of every rendered roster row are disabled.
C3_DisabledWhileInFlight ==
    InFlightCount > 0 =>
        \A i \in Rows : isDropdownDisabled(users[i]) /\ deleteDisabled(users[i])

\* C4: declining the delete confirmation issues no request and leaves the
\* roster, loading, error, message and the viewed user unchanged.
C4_DeclineChangesNothing ==
    [][last' = "ConfirmDeclined" => UNCHANGED <<view, inflight>>]_vars

C4_Witness ==
    /\ last = "ConfirmDeclined"
    /\ confirm = NoConfirm
    /\ users # <<>>

\* C5: a failed changeRole or deleteUser completion sets a non-empty error and
\* leaves the roster as it was just before the completion.
C5_FailureKeepsRoster ==
    [][last' \in RejectedOrThrew => users' = users /\ error' # ""]_vars

C5_Witness ==
    /\ last \in RejectedOrThrew
    /\ users # <<>>
    /\ error # ""

\* C6: a failed fetchUsers completion sets a non-empty error and leaves the
\* roster as it was; after a failed initial load the roster is empty, the error
\* is non-empty and loading is false.
C6_FetchFailureKeepsRoster ==
    [][/\ last' \in FetchFailed => users' = users /\ error' # ""
       /\ (last = "Mount" /\ last' = "FetchThrew") =>
              users' = <<>> /\ error' # "" /\ loading' = FALSE]_vars

C6_Witness ==
    /\ last \in FetchFailed
    /\ users # <<>>
    /\ error # ""

\* C7: every settling request clears loading, so loading is false whenever no
\* request is in flight, and when every request settles loading becomes false
\* again.
C7_LoadingCleared ==
    /\ [](InFlightCount = 0 => loading = FALSE)
    /\ [][InFlightCount' < InFlightCount => loading' = FALSE]_vars
    /\ (loading = TRUE ~> loading = FALSE)

C7_Witness ==
    /\ last \in Settled
    /\ InFlightCount = 0
    /\ loading = FALSE

\* C8: without a token the login notice is rendered and no step starts a
\* request.
C8_NoTokenNoRequest ==
    /\ [](authToken = NoToken => RenderMode = "login" /\ Rows = {})
    /\ [][Started => authToken' # NoToken]_vars

C8_Witness ==
    /\ mounted
    /\ last = "Mount"
    /\ authToken = NoToken
    /\ currentUserRole \in AdminRoles
    /\ InFlightCount = 0

\* C9 as stated: with a token and any role outside the admin set, access-denied
\* is rendered and the error message is non-empty.
C9_DeniedSetsError ==
    (mounted /\ authToken # NoToken /\ currentUserRole \notin AdminRoles) =>
        (RenderMode = "denied" /\ error # "")

\* C9 as amended: with a token and a role outside the admin set, access-denied
\* is rendered and no request is started; the error message is non-empty when
\* the role is a non-empty value, and the effect sets none when the role is
\* absent.
C9_DeniedAmended ==
    /\ []((mounted /\ authToken # NoToken /\ currentUserRole \notin AdminRoles) =>
            (RenderMode = "denied" /\ (currentUserRole # NoRole => error # "")))
    /\ [][Started => currentUserRole' \in AdminRoles]_vars
    /\ [][(last' \in {"Mount", "PropsChange"} /\ currentUserRole' = NoRole) =>
              error' = error]_vars

C9_Witness ==
    /\ mounted
    /\ authToken # NoToken
    /\ currentUserRole = "user"
    /\ RenderMode = "denied"
    /\ error # ""
    /\ InFlightCount = 0

\* C10: when no request is in flight, error and message are not both
\* non-empty.
C10_ErrorOrMessage ==
    InFlightCount = 0 => ~(error # "" /\ message # "")

\* C11: viewUserTodos starts no request and only records its target;
\* backToUsers clears the target and starts exactly one fetchUsers request.
C11_ViewAndBack ==
    [][/\ last' = "handleViewUserTodos" =>
              /\ inflight' = inflight
              /\ viewingUserId' \in Ids(users)
              /\ viewingUserEmail' = Email(viewingUserId')
              /\ UNCHANGED <<users, loading, error, message>>
       /\ last' = "handleBackToUsers" =>
              /\ viewingUserId' = NoUser
              /\ viewingUserEmail' = NoEmail
              /\ inflight' = inflight (+) SetToBag({FetchReq})]_vars

C11_Witness ==
    /\ last = "handleBackToUsers"
    /\ viewingUserId = NoUser
    /\ inflight = SetToBag({FetchReq})

\* C12: for every acting role and row role, with loading false on a row that
\* is not the acting user's own, the role select is disabled exactly when the
\* acting role's level is below the row role's level.
C12_DropdownPolicy ==
    \A i \in 1..Len(users) :
        (loading = FALSE /\ users[i].email # storedEmail) =>
            (isDropdownDisabled(users[i]) <=>
                ROLE_LEVELS[currentUserRole] < ROLE_LEVELS[users[i].role])

C12_Witness ==
    /\ loading = FALSE
    /\ currentUserRole = "admin"
    /\ Len(users) = 2
    /\ \A i \in 1..2 : users[i].email # storedEmail
    /\ users[1].role = "moderator"
    /\ users[2].role = "superAdmin"
    /\ ~isDropdownDisabled(users[1])
    /\ isDropdownDisabled(users[2])
    /\ last = "ConfirmDeclined"

\* C13: under the same conditions the Delete button is disabled exactly when
\* (acting level <= row level and acting is not superAdmin) or (row is
\* superAdmin and acting is not superAdmin).
C13_DeletePolicy ==
    \A i \in 1..Len(users) :
        (loading = FALSE /\ users[i].email # storedEmail) =>
            (deleteDisabled(users[i]) <=>
                \/ /\ ROLE_LEVELS[currentUserRole] <= ROLE_LEVELS[users[i].role]
                   /\ currentUserRole # "superAdmin"
                \/ /\ users[i].role = "superAdmin"
                   /\ currentUserRole # "superAdmin")

C13_Witness ==
    /\ loading = FALSE
    /\ currentUserRole = "manager"
    /\ Len(users) = 2
    /\ \A i \in 1..2 : users[i].email # storedEmail
    /\ users[1].role = "superAdmin"
    /\ users[2].role = "moderator"
    /\ deleteDisabled(users[1])
    /\ ~deleteDisabled(users[2])
    /\ last = "ConfirmDeclined"

\* C14: an option of a row's role select is disabled exactly when the
\* option's level is above the acting level, or the row is superAdmin and the
\* acting role is not.
C14_OptionPolicy ==
    \A i \in 1..Len(users), role \in Roles :
        optionDisabled(role, users[i]) <=>
            \/ ROLE_LEVELS[role] > ROLE_LEVELS[currentUserRole]
            \/ (users[i].role = "superAdmin" /\ currentUserRole # "superAdmin")

C14_Witness ==
    /\ currentUserRole = "admin"
    /\ Len(users) >= 1
    /\ users[1].role = "moderator"
    /\ \A role \in {"user", "moderator", "admin"} : ~optionDisabled(role, users[1])
    /\ \A role \in {"superAdmin", "manager"} : optionDisabled(role, users[1])
    /\ last = "handleChangeRole"

\* C15: a successful fetchUsers completion makes the roster exactly the list
\* of the response body, in the body's order, and the empty sequence when the
\* body carries no list, whatever the roster held and whatever else is in
\* flight.
C15_FetchReplacesRoster ==
    [][last' = "FetchOk" =>
           users' = (IF fetched'.present THEN fetched'.users ELSE <<>>)]_vars

C15_Witness ==
    /\ last = "FetchOk"
    /\ fetched.present
    /\ Len(users) = 2
    /\ users[1]._id > users[2]._id
    /\ users = fetched.users
    /\ InFlightCount > 0

\* C16: the row whose email is the stored email of the acting user has its
\* role select and its Delete button disabled, whatever the acting role, the
\* row's role and loading are; no changeRole or deleteUser request and no
\* open confirmation targets that email.
C16_SelfRowDisabled ==
    /\ \A i \in 1..Len(users) :
           users[i].email = storedEmail =>
               /\ isDropdownDisabled(users[i])
               /\ deleteDisabled(users[i])
    /\ \A req \in BagToSet(inflight) :
           req.kind \in {"changeRole", "deleteUser"} => req.email # storedEmail
    /\ confirm # NoConfirm => confirm.email # storedEmail

C16_Witness ==
    /\ last = "ConfirmAccepted"
    /\ currentUserRole = "superAdmin"
    /\ Len(users) = 2
    /\ users[1].email = storedEmail
    /\ users[1].role = "user"
    /\ isDropdownDisabled(users[1])
    /\ deleteDisabled(users[1])
    /\ \E req \in BagToSet(inflight) :
           req.kind = "deleteUser" /\ req.userId = users[2]._id

\* C17: an identifier that a successful deleteUser completion removed from the
\* roster is not in the roster again until a successful fetchUsers completion
\* returns it; no changeRole completion brings it back.
C17_DeletedStaysOut ==
    \A id \in deleted : id \notin Ids(users)

\* C18: with authToken and currentUserRole fixed and every click made on the
\* controls of the current render, at most one request is in flight.
C18_OneInFlight ==
    InFlightCount <= 1

\* C19: every changeRole request started from the rendered controls has a
\* target other than the acting user, a target whose role at the click is at or
\* below the acting level, a new role at or below the acting level, and a
\* superAdmin target only when the acting role is superAdmin.
C19_RoleChangeRequests ==
    \A req \in BagToSet(inflight) :
        req.kind = "changeRole" =>
            \E i \in 1..Len(req.users) :
                /\ req.users[i]._id = req.userId
                /\ req.users[i].email = req.email
                /\ req.email # storedEmail
                /\ ROLE_LEVELS[req.users[i].role] <= ROLE_LEVELS[currentUserRole]
                /\ ROLE_LEVELS[req.newRole] <= ROLE_LEVELS[currentUserRole]
                /\ req.users[i].role = "superAdmin" => currentUserRole = "superAdmin"

C19_Witness ==
    /\ last = "handleChangeRole"
    /\ currentUserRole = "manager"
    /\ \E req \in BagToSet(inflight), i \in 1..Len(users) :
           /\ req.kind = "changeRole"
           /\ req.userId = users[i]._id
           /\ users[i].role = "manager"
           /\ req.newRole = "superAdmin"

====
